---- MODULE Spec2Model ----
(***************************************************************************)
(* Admission webhook of the policy controller                              *)
(* (policy-controller/src/admission.rs).                                   *)
(*                                                                         *)
(* AdmissionService::call gates on method and path, aggregates the body,   *)
(* decodes an AdmissionReview, and hands the request to admit, which       *)
(* dispatches on (group, kind) to admit_authz_policy or admit_server.      *)
(* admit_server reads the shared index under its read lock and runs        *)
(* validate_server against the servers of the request's namespace.         *)
(***************************************************************************)
EXTENDS Integers, Sequences, FiniteSets, TLC

(***************************************************************************)
(* Bounds                                                                  *)
(***************************************************************************)
\* Largest number of Server entries the index holds at once.
MaxServers == 2

(***************************************************************************)
(* Program constants                                                       *)
(***************************************************************************)
StatusNotFound == 404
StatusOk == 200

PolicyGroup == "policy.linkerd.io"
ServerKind == "Server"
AuthorizationPolicyKind == "AuthorizationPolicy"

(***************************************************************************)
(* Value universes                                                         *)
(***************************************************************************)
Namespaces == {"ns1", "ns2"}
Names == {"a", "b"}
Uids == {"u1", "u2"}
Groups == {PolicyGroup, "other.io"}
Versions == {"v1beta1", "v1alpha1"}
Kinds == {AuthorizationPolicyKind, ServerKind, "Widget"}

\* Port is either a number or a name; the two never compare equal.
Ports == {[number |-> 8080], [name |-> "http"]}
PodSelectors == {[app |-> "foo"], [app |-> "bar"]}
ServerSpecs == [port : Ports, podSelector : PodSelectors]

\* targetRef.group is an Option<String>: a set with at most one element.
TargetRefGroups == {{}, {PolicyGroup}, {"apps"}}
TargetRefKinds == {ServerKind, "Deployment"}
AuthorizationPolicySpecs ==
    [targetRef : [group : TargetRefGroups, kind : TargetRefKinds, name : {"srv"}]]

\* The JSON value stored under the object's "spec" key, when there is one.
\* A "junk" value has neither the fields of a ServerSpec nor those of an
\* AuthorizationPolicySpec.
SpecValues ==
    {[shape |-> "junk"]}
    \cup {[shape |-> "server", server |-> s] : s \in ServerSpecs}
    \cup {[shape |-> "authz", authz |-> a] : a \in AuthorizationPolicySpecs}

\* obj.data: the "spec" key is absent ({}) or carries one value.
ObjectData == {{}} \cup {{v} : v \in SpecValues}

\* DynamicObject: metadata.namespace is an Option<String>.
DynamicObjects ==
    [namespace : {{}} \cup {{ns} : ns \in Namespaces},
     name : Names,
     data : ObjectData]

GroupVersionKinds == [group : Groups, version : Versions, kind : Kinds]

\* AdmissionRequest<DynamicObject>: req.object is an Option.
AdmissionRequests ==
    [uid : Uids,
     kind : GroupVersionKinds,
     object : {{}} \cup {{o} : o \in DynamicObjects}]

(***************************************************************************)
(* The index (linkerd_policy_controller_k8s_index::Index), as far as the   *)
(* admission code reads it: namespaces, each with its servers by name.     *)
(***************************************************************************)
NsIndexes ==
    {[servers |-> s] : s \in UNION {[N -> ServerSpecs] : N \in SUBSET Names}}

NumServers(idx) ==
    Cardinality({<<ns, n>> \in Namespaces \X Names :
                    ns \in DOMAIN idx /\ n \in DOMAIN idx[ns].servers})

Indexes ==
    {idx \in UNION {[D -> NsIndexes] : D \in SUBSET Namespaces} :
        NumServers(idx) <= MaxServers}

EmptyIndex == [ns \in {} |-> [servers |-> <<>>]]

\* index.get_ns(ns): Option<&NamespaceIndex>
get_ns(idx, ns) == IF ns \in DOMAIN idx THEN {idx[ns]} ELSE {}

\* idx with the Server (ns, name) set to spec; the namespace is created
\* when it is not there.
WithServer(idx, ns, name, spec) ==
    LET old == IF ns \in DOMAIN idx THEN idx[ns].servers ELSE <<>>
        new == [n \in (DOMAIN old) \cup {name} |->
                   IF n = name THEN spec ELSE old[n]]
    IN [m \in (DOMAIN idx) \cup {ns} |->
           IF m = ns THEN [servers |-> new] ELSE idx[m]]

WithoutServer(idx, ns, name) ==
    [idx EXCEPT ![ns].servers =
        [n \in (DOMAIN @) \ {name} |-> @[n]]]

(***************************************************************************)
(* Results and responses                                                   *)
(***************************************************************************)
Ok == [ok |-> TRUE, error |-> ""]
Err(msg) == [ok |-> FALSE, error |-> msg]

\* AdmissionResponse::from(&req): allowed, carrying the request's uid.
ResponseFrom(req) == [uid |-> req.uid, allowed |-> TRUE, message |-> ""]

\* rsp.deny(reason): same response, not allowed, with the reason.
Deny(rsp, reason) == [rsp EXCEPT !.allowed = FALSE, !.message = reason]

\* AdmissionResponse::invalid(reason): built from the reason alone; it is
\* not given the request, so its uid is the default (empty) string.
Invalid(reason) == [uid |-> "", allowed |-> FALSE, message |-> reason]

(***************************************************************************)
(* parse_spec                                                              *)
(***************************************************************************)
\* serde_json::from_value::<T>(data): succeeds when the value has T's shape.
from_value(shape, data) ==
    IF data.shape = shape
    THEN [ok |-> TRUE, error |-> "", spec |-> data[shape]]
    ELSE [ok |-> FALSE,
          error |-> IF shape = "server" THEN "missing field podSelector"
                    ELSE "missing field targetRef",
          spec |-> <<>>]

ParseErr(msg) == [ok |-> FALSE, error |-> msg, ns |-> "", name |-> "", spec |-> <<>>]

\* parse_spec, looking for the spec before the namespace.
parse_spec_SpecFirst(shape, req) ==
    IF req.object = {} THEN ParseErr("missing server")
    ELSE LET obj == CHOOSE o \in req.object : TRUE IN
         IF obj.data = {} THEN ParseErr("no 'spec' field set on server")
         ELSE IF obj.namespace = {} THEN ParseErr("no 'namespace' field set on server")
         ELSE LET data == CHOOSE v \in obj.data : TRUE
                  parsed == from_value(shape, data)
              IN IF ~parsed.ok THEN ParseErr(parsed.error)
                 ELSE [ok |-> TRUE, error |-> "",
                       ns |-> CHOOSE ns \in obj.namespace : TRUE,
                       name |-> obj.name,
                       spec |-> parsed.spec]

parse_spec(shape, req) ==
    IF req.object = {} THEN ParseErr("missing server")
    ELSE LET obj == CHOOSE o \in req.object : TRUE IN
         IF obj.namespace = {} THEN ParseErr("no 'namespace' field set on server")
         ELSE IF obj.data = {} THEN ParseErr("no 'spec' field set on server")
         ELSE LET data == CHOOSE v \in obj.data : TRUE
                  parsed == from_value(shape, data)
              IN IF ~parsed.ok THEN ParseErr(parsed.error)
                 ELSE [ok |-> TRUE, error |-> "",
                       ns |-> CHOOSE ns \in obj.namespace : TRUE,
                       name |-> obj.name,
                       spec |-> parsed.spec]

(***************************************************************************)
(* Validators                                                              *)
(***************************************************************************)
\* validate_authz_policy, failing only when both the group and the kind are
\* wrong.
validate_authz_policy_And(spec) ==
    IF spec.targetRef.group # {PolicyGroup} /\ spec.targetRef.kind # ServerKind
    THEN Err("targetRef must be a policy.linkerd.io Server")
    ELSE Ok

validate_authz_policy(spec) ==
    IF spec.targetRef.group # {PolicyGroup} \/ spec.targetRef.kind # ServerKind
    THEN Err("targetRef must be a policy.linkerd.io Server")
    ELSE Ok

\* Conflicts, comparing the podSelector only.
Conflicts_IgnoringPort(srvname, srv, name, spec) ==
    /\ srvname # name
    /\ srv.podSelector = spec.podSelector

\* Conflicts, without skipping the entry that has the request's own name.
Conflicts_WithSelf(srvname, srv, name, spec) ==
    /\ srv.port = spec.port
    /\ srv.podSelector = spec.podSelector

\* Conflicts, with the name comparison inverted.
Conflicts_SameName(srvname, srv, name, spec) ==
    /\ srvname = name
    /\ srv.port = spec.port
    /\ srv.podSelector = spec.podSelector

\* One iteration of the loop of validate_server: does the entry (srvname,
\* srv) make the admission of (name, spec) fail?
Conflicts(srvname, srv, name, spec) ==
    /\ srvname # name
    /\ srv.port = spec.port
    /\ srv.podSelector = spec.podSelector

\* IterServers, going through every entry and keeping the outcome of the
\* last one.
RECURSIVE IterServers_LastWins(_, _, _, _)
IterServers_LastWins(todo, servers, name, spec) ==
    IF todo = {} THEN Ok
    ELSE LET srvname == CHOOSE n \in todo : TRUE IN
         IF todo # {srvname}
         THEN IterServers_LastWins(todo \ {srvname}, servers, name, spec)
         ELSE IF Conflicts(srvname, servers[srvname], name, spec)
              THEN Err("identical server spec already exists")
              ELSE Ok

\* The for loop of validate_server over nsidx.servers.iter(): the entries
\* still to visit are todo; the first conflicting entry ends the loop with
\* the error.  (The map's iteration order is arbitrary.)
RECURSIVE IterServers(_, _, _, _)
IterServers(todo, servers, name, spec) ==
    IF todo = {} THEN Ok
    ELSE LET srvname == CHOOSE n \in todo : TRUE IN
         IF Conflicts(srvname, servers[srvname], name, spec)
         THEN Err("identical server spec already exists")
         ELSE IterServers(todo \ {srvname}, servers, name, spec)

\* validate_server, iterating over the servers of every namespace.
validate_server_AnyNamespace(ns, name, spec, idx) ==
    IF \E m \in DOMAIN idx :
          IterServers(DOMAIN idx[m].servers, idx[m].servers, name, spec) # Ok
    THEN Err("identical server spec already exists")
    ELSE Ok

validate_server(ns, name, spec, idx) ==
    IF get_ns(idx, ns) # {}
    THEN LET nsidx == CHOOSE n \in get_ns(idx, ns) : TRUE
         IN IterServers(DOMAIN nsidx.servers, nsidx.servers, name, spec)
    ELSE Ok

(***************************************************************************)
(* admit and the two admit_* functions                                     *)
(***************************************************************************)
\* admit_authz_policy, not denying on a failed validation.
admit_authz_policy_IgnoringRule(req) ==
    LET rsp == ResponseFrom(req)
        p == parse_spec("authz", req)
    IN IF ~p.ok THEN Invalid(p.error)
       ELSE rsp

admit_authz_policy(req) ==
    LET rsp == ResponseFrom(req)
        p == parse_spec("authz", req)
    IN IF ~p.ok THEN Invalid(p.error)
       ELSE LET v == validate_authz_policy(p.spec)
            IN IF v.ok THEN rsp ELSE Deny(rsp, v.error)

admit_server(req, idx) ==
    LET rsp == ResponseFrom(req)
        p == parse_spec("server", req)
    IN IF ~p.ok THEN Invalid(p.error)
       ELSE LET v == validate_server(p.ns, p.name, p.spec, idx)
            IN IF v.ok THEN rsp ELSE Deny(rsp, v.error)

UnsupportedReason(gvk) ==
    "unsupported resource type: " \o gvk.group \o "." \o gvk.version \o "." \o gvk.kind

\* Route, matching the version as well.
Route_WithVersion(gvk) ==
    IF gvk.version # "v1beta1" THEN "unsupported"
    ELSE IF gvk.group = PolicyGroup /\ gvk.kind = AuthorizationPolicyKind THEN "authz"
    ELSE IF gvk.group = PolicyGroup /\ gvk.kind = ServerKind THEN "server"
    ELSE "unsupported"

\* Route, matching on the kind alone.
Route_KindOnly(gvk) ==
    IF gvk.kind = AuthorizationPolicyKind THEN "authz"
    ELSE IF gvk.kind = ServerKind THEN "server"
    ELSE "unsupported"

\* The route admit takes for a request's (group, kind); the version is not
\* looked at.
Route(gvk) ==
    IF gvk.group = PolicyGroup /\ gvk.kind = AuthorizationPolicyKind THEN "authz"
    ELSE IF gvk.group = PolicyGroup /\ gvk.kind = ServerKind THEN "server"
    ELSE "unsupported"

admit(req, idx) ==
    CASE Route(req.kind) = "authz" -> admit_authz_policy(req)
      [] Route(req.kind) = "server" -> admit_server(req, idx)
      [] OTHER -> Invalid(UnsupportedReason(req.kind))

(***************************************************************************)
(* HTTP layer                                                              *)
(***************************************************************************)
\* The body of an HTTP request: bytes that do not parse as an
\* AdmissionReview, or a review whose request is an Option.
Garbage == [json |-> FALSE, request |-> {}]
ReviewOf(reqs) == [json |-> TRUE, request |-> reqs]

\* serde_json::from_reader(bytes.reader()) into a Review.
from_reader(body) ==
    IF body.json THEN [ok |-> TRUE, error |-> "", review |-> {body}]
    ELSE [ok |-> FALSE, error |-> "expected value at line 1 column 1", review |-> {}]

\* review.try_into(): the AdmissionRequest of the review, or an error when
\* the review carries none.
try_into(review) ==
    IF review.request = {}
    THEN [ok |-> FALSE, error |-> "request missing in AdmissionReview", req |-> {}]
    ELSE [ok |-> TRUE, error |-> "", req |-> review.request]

\* rsp.into_review()
into_review(rsp) == [response |-> {rsp}]

\* json_response: status OK, JSON content type, the encoded review as body.
\* serde_json::to_vec does not fail on an AdmissionReview.
json_response(review) ==
    [ok |-> TRUE, status |-> StatusOk, contentType |-> "application/json",
     body |-> {review}]

\* The response built by call for a wrong method or path.
NotFoundResponse ==
    [ok |-> TRUE, status |-> StatusNotFound, contentType |-> "", body |-> {}]

\* Err(Error::Request(_)): the body could not be read.
RequestError == [ok |-> FALSE, error |-> "failed to read request body"]

(***************************************************************************)
(* State                                                                   *)
(***************************************************************************)
VARIABLES
    index,      \* the contents of the SharedIndex
    readers,    \* the calls holding the read side of the index lock
    calls,      \* the state of each call's future
    cluster,    \* the Servers the orchestrator has persisted
    areq,       \* admit's argument (specification SpecAdmit)
    arsp        \* admit's result, once it has run (specification SpecAdmit)

vars == <<index, readers, calls, cluster, areq, arsp>>

\* The calls that may be in flight together.
Calls == {"c1", "c2"}

\* A call that has not been made.  Optional fields are sets of at most one
\* element.  did records the stages the call has gone through: "await" (the
\* body was awaited), "aggregate" (the body was read), "decode" (the body
\* was parsed), "admit" (admit ran), "validate" (a validate_* function
\* ran), "index" (the index was read).
NoCall ==
    [pc |-> "idle", http |-> {}, rsp |-> {}, parsed |-> {}, todo |-> {},
     verdict |-> {}, result |-> {}, did |-> {}]

The(S) == CHOOSE x \in S : TRUE

(***************************************************************************)
(* AdmissionService::call                                                  *)
(***************************************************************************)
\* Call, answering at once only when both the method and the path are wrong.
Call_BothWrong(c, h) ==
    /\ calls[c].pc = "idle"
    /\ IF h.method # "POST" /\ h.path # "/"
       THEN calls' = [calls EXCEPT ![c] =
                [NoCall EXCEPT !.pc = "done", !.http = {h},
                               !.result = {NotFoundResponse}]]
       ELSE calls' = [calls EXCEPT ![c] =
                [NoCall EXCEPT !.pc = "aggregate", !.http = {h}]]
    /\ UNCHANGED <<index, readers, cluster, areq, arsp>>

\* call(req): a wrong method or path is answered at once; otherwise the
\* future suspends in hyper::body::aggregate.
Call(c, h) ==
    /\ calls[c].pc = "idle"
    /\ IF h.method # "POST" \/ h.path # "/"
       THEN calls' = [calls EXCEPT ![c] =
                [NoCall EXCEPT !.pc = "done", !.http = {h},
                               !.result = {NotFoundResponse}]]
       ELSE calls' = [calls EXCEPT ![c] =
                [NoCall EXCEPT !.pc = "aggregate", !.http = {h}]]
    /\ UNCHANGED <<index, readers, cluster, areq, arsp>>

\* ReadFailed, turning the failure into an invalid response.
ReadFailed_AsDenial(c) ==
    /\ calls[c].pc = "aggregate"
    /\ calls' = [calls EXCEPT
           ![c].pc = "done",
           ![c].result = {json_response(into_review(Invalid(RequestError.error)))},
           ![c].did = {"await"}]
    /\ UNCHANGED <<index, readers, cluster, areq, arsp>>

\* aggregate(..).await? fails: the future resolves to Err(Error::Request).
ReadFailed(c) ==
    /\ calls[c].pc = "aggregate"
    /\ calls' = [calls EXCEPT ![c].pc = "done",
                              ![c].result = {RequestError},
                              ![c].did = {"await"}]
    /\ UNCHANGED <<index, readers, cluster, areq, arsp>>

\* The future is dropped while it is suspended (the caller went away).
Abandon(c) ==
    /\ calls[c].pc = "aggregate"
    /\ calls' = [calls EXCEPT ![c] = NoCall]
    /\ UNCHANGED <<index, readers, cluster, areq, arsp>>

\* The state of call c once it resolves to the response for rsp.
Responded(call, rsp, did) ==
    [call EXCEPT !.pc = "done",
                 !.result = {json_response(into_review(rsp))},
                 !.did = did]

\* DecodeFailed, returning the error to the caller.
DecodeFailed_Propagated(call, error) ==
    [call EXCEPT !.pc = "done",
                 !.result = {[ok |-> FALSE, error |-> error]},
                 !.did = {"await", "aggregate", "decode"}]

\* The Err arms of the two matches of call: the error becomes an invalid
\* response, returned through json_response.
DecodeFailed(call, error) ==
    Responded(call, Invalid(error), {"await", "aggregate", "decode"})

\* The body has arrived: decode it, convert it and run admit up to the
\* point where admit_server is about to take the index's read lock.
Aggregated(c) ==
    /\ calls[c].pc = "aggregate"
    /\ LET call == calls[c]
           parsedReview == from_reader(The(call.http).body)
       IN IF ~parsedReview.ok
          THEN calls' = [calls EXCEPT ![c] =
                   DecodeFailed(call, parsedReview.error)]
          ELSE
          LET converted == try_into(The(parsedReview.review)) IN
          IF ~converted.ok
          THEN calls' = [calls EXCEPT ![c] =
                   DecodeFailed(call, converted.error)]
          ELSE
          LET req == The(converted.req) IN
          CASE Route(req.kind) = "authz" ->
                 calls' = [calls EXCEPT ![c] =
                     Responded(call, admit_authz_policy(req),
                         {"await", "aggregate", "decode", "admit"}
                         \cup IF parse_spec("authz", req).ok
                              THEN {"validate"} ELSE {})]
            [] Route(req.kind) = "server" ->
                 LET p == parse_spec("server", req) IN
                 IF ~p.ok
                 THEN calls' = [calls EXCEPT ![c] =
                          Responded(call, Invalid(p.error),
                                    {"await", "aggregate", "decode", "admit"})]
                 ELSE calls' = [calls EXCEPT ![c] =
                          [call EXCEPT !.pc = "read",
                                       !.rsp = {ResponseFrom(req)},
                                       !.parsed = {p},
                                       !.did = {"await", "aggregate", "decode", "admit"}]]
            [] OTHER ->
                 calls' = [calls EXCEPT ![c] =
                     Responded(call, Invalid(UnsupportedReason(req.kind)),
                               {"await", "aggregate", "decode", "admit"})]
    /\ UNCHANGED <<index, readers, cluster, areq, arsp>>

\* AcquireRead, waiting until no other call is suspended on its body.
AcquireRead_AfterBodies(c) ==
    /\ calls[c].pc = "read"
    /\ \A d \in Calls \ {c} : calls[d].pc # "aggregate"
    /\ LET p == The(calls[c].parsed) IN
       calls' = [calls EXCEPT
           ![c].pc = "iter",
           ![c].todo = IF get_ns(index, p.ns) # {}
                       THEN DOMAIN The(get_ns(index, p.ns)).servers
                       ELSE {},
           ![c].did = @ \cup {"index", "validate"}]
    /\ readers' = readers \cup {c}
    /\ UNCHANGED <<index, cluster, areq, arsp>>

\* AcquireRead, reading the index without holding its lock.
AcquireRead_NoGuard(c) ==
    /\ calls[c].pc = "read"
    /\ LET p == The(calls[c].parsed) IN
       calls' = [calls EXCEPT
           ![c].pc = "iter",
           ![c].todo = IF get_ns(index, p.ns) # {}
                       THEN DOMAIN The(get_ns(index, p.ns)).servers
                       ELSE {},
           ![c].did = @ \cup {"index", "validate"}]
    /\ UNCHANGED <<index, readers, cluster, areq, arsp>>

\* AcquireRead, skipping the servers when another call holds the lock.
AcquireRead_TryRead(c) ==
    /\ calls[c].pc = "read"
    /\ LET p == The(calls[c].parsed) IN
       calls' = [calls EXCEPT
           ![c].pc = "iter",
           ![c].todo = IF get_ns(index, p.ns) # {} /\ readers = {}
                       THEN DOMAIN The(get_ns(index, p.ns)).servers
                       ELSE {},
           ![c].did = @ \cup {"index", "validate"}]
    /\ readers' = readers \cup {c}
    /\ UNCHANGED <<index, cluster, areq, arsp>>

\* admit_server: index.read() takes the read side of the lock, and
\* validate_server looks the namespace up and starts iterating its servers.
AcquireRead(c) ==
    /\ calls[c].pc = "read"
    /\ LET p == The(calls[c].parsed) IN
       calls' = [calls EXCEPT
           ![c].pc = "iter",
           ![c].todo = IF get_ns(index, p.ns) # {}
                       THEN DOMAIN The(get_ns(index, p.ns)).servers
                       ELSE {},
           ![c].did = @ \cup {"index", "validate"}]
    /\ readers' = readers \cup {c}
    /\ UNCHANGED <<index, cluster, areq, arsp>>

\* One iteration of the loop of validate_server, or its end.
IterStep(c) ==
    /\ calls[c].pc = "iter"
    /\ LET p == The(calls[c].parsed) IN
       IF calls[c].todo = {}
       THEN calls' = [calls EXCEPT ![c].pc = "unlock", ![c].verdict = {Ok}]
       ELSE \E srvname \in calls[c].todo :
              IF Conflicts(srvname, index[p.ns].servers[srvname], p.name, p.spec)
              THEN calls' = [calls EXCEPT
                       ![c].pc = "unlock",
                       ![c].verdict = {Err("identical server spec already exists")}]
              ELSE calls' = [calls EXCEPT ![c].todo = @ \ {srvname}]
    /\ UNCHANGED <<index, readers, cluster, areq, arsp>>

\* Unlock, keeping the read guard after the response is built.
Unlock_KeepGuard(c) ==
    /\ calls[c].pc = "unlock"
    /\ LET call == calls[c]
           v == The(call.verdict)
           rsp == The(call.rsp)
       IN calls' = [calls EXCEPT ![c] =
              Responded([call EXCEPT !.todo = {}],
                        IF v.ok THEN rsp ELSE Deny(rsp, v.error),
                        call.did)]
    /\ UNCHANGED <<index, readers, cluster, areq, arsp>>

\* Unlock, recording an allowed Server in the index.
Unlock_Indexing(c) ==
    /\ calls[c].pc = "unlock"
    /\ LET call == calls[c]
           v == The(call.verdict)
           rsp == The(call.rsp)
           p == The(call.parsed)
       IN /\ calls' = [calls EXCEPT ![c] =
                 Responded([call EXCEPT !.todo = {}],
                           IF v.ok THEN rsp ELSE Deny(rsp, v.error),
                           call.did)]
          /\ index' = IF v.ok THEN WithServer(index, p.ns, p.name, p.spec)
                      ELSE index
    /\ readers' = readers \ {c}
    /\ UNCHANGED <<cluster, areq, arsp>>

\* The match of admit_server ends: the read guard is dropped and the
\* response goes back through call.
Unlock(c) ==
    /\ calls[c].pc = "unlock"
    /\ LET call == calls[c]
           v == The(call.verdict)
           rsp == The(call.rsp)
       IN calls' = [calls EXCEPT ![c] =
              Responded([call EXCEPT !.todo = {}],
                        IF v.ok THEN rsp ELSE Deny(rsp, v.error),
                        call.did)]
    /\ readers' = readers \ {c}
    /\ UNCHANGED <<index, cluster, areq, arsp>>

\* The caller has taken the result of the future.
Finish(c) ==
    /\ calls[c].pc = "done"
    /\ calls' = [calls EXCEPT ![c] = NoCall]
    /\ UNCHANGED <<index, readers, cluster, areq, arsp>>

(***************************************************************************)
(* The writer of the index (the watch that maintains it)                   *)
(***************************************************************************)
\* The writer takes the write side of the lock, which excludes readers.
IndexApply(ns, name, spec) ==
    /\ readers = {}
    /\ NumServers(WithServer(index, ns, name, spec)) <= MaxServers
    /\ index' = WithServer(index, ns, name, spec)
    /\ index' # index
    /\ UNCHANGED <<readers, calls, cluster, areq, arsp>>

IndexDelete(ns, name) ==
    /\ readers = {}
    /\ ns \in DOMAIN index
    /\ name \in DOMAIN index[ns].servers
    /\ index' = WithoutServer(index, ns, name)
    /\ UNCHANGED <<readers, calls, cluster, areq, arsp>>

\* A namespace without servers appears in, or disappears from, the index.
IndexNamespace(ns) ==
    /\ readers = {}
    /\ IF ns \in DOMAIN index
       THEN /\ DOMAIN index[ns].servers = {}
            /\ index' = [m \in (DOMAIN index) \ {ns} |-> index[m]]
       ELSE index' = [m \in (DOMAIN index) \cup {ns} |->
                         IF m = ns THEN [servers |-> <<>>] ELSE index[m]]
    /\ UNCHANGED <<readers, calls, cluster, areq, arsp>>

(***************************************************************************)
(* Specification Spec: the service under concurrent calls, with the index  *)
(* written by its watch at any time.                                       *)
(***************************************************************************)
Object(ns, name, data) == [namespace |-> ns, name |-> name, data |-> data]

Gvk(group, kind) == [group |-> group, version |-> "v1beta1", kind |-> kind]

\* The Server specs and the namespace the calls and the writer of this
\* specification use.
HandlerSpecs == {s \in ServerSpecs : s.port = [number |-> 8080]}
HandlerNamespaces == {"ns1"}

\* One request for every path through admit: an unsupported type, the four
\* failures of parse_spec, well-formed Servers, AuthorizationPolicies with a
\* good and with a bad targetRef, and AuthorizationPolicies on which
\* parse_spec fails.
HandlerRequests ==
    LET server(uid, obj) ==
            [uid |-> uid, kind |-> Gvk(PolicyGroup, ServerKind), object |-> obj]
        authz(uid, group, kind) ==
            [uid |-> uid, kind |-> Gvk(PolicyGroup, AuthorizationPolicyKind),
             object |-> {Object({"ns1"}, "a",
                 {[shape |-> "authz",
                   authz |-> [targetRef |->
                       [group |-> group, kind |-> kind, name |-> "srv"]]]})}]
    IN {[uid |-> "u1", kind |-> Gvk("other.io", "Widget"), object |-> {}]}
       \cup {server("u2", {}),
             server("u1", {Object({}, "a", {})}),
             server("u2", {Object({"ns1"}, "a", {})}),
             server("u1", {Object({"ns1"}, "a", {[shape |-> "junk"]})})}
       \cup {server(IF n = "a" THEN "u1" ELSE "u2",
                    {Object({"ns1"}, n, {[shape |-> "server", server |-> s]})}) :
                <<n, s>> \in Names \X HandlerSpecs}
       \cup {authz("u1", {PolicyGroup}, ServerKind),
             authz("u2", {"apps"}, "Deployment")}
       \cup {[uid |-> "u1", kind |-> Gvk(PolicyGroup, AuthorizationPolicyKind),
              object |-> {Object({}, "a", {})}],
             [uid |-> "u2", kind |-> Gvk(PolicyGroup, AuthorizationPolicyKind),
              object |-> {Object({"ns1"}, "a", {[shape |-> "junk"]})}]}

HandlerBodies == {Garbage, ReviewOf({})} \cup {ReviewOf({r}) : r \in HandlerRequests}

\* Calls on the right route with every body, and calls on a wrong route
\* with a body that would be denied and one that would be allowed.
HandlerHttp ==
    [method : {"POST"}, path : {"/"}, body : HandlerBodies]
    \cup {h \in [method : {"POST", "GET"}, path : {"/", "/metrics"},
                 body : {Garbage,
                         ReviewOf({CHOOSE r \in HandlerRequests :
                                      /\ Route(r.kind) = "server"
                                      /\ parse_spec("server", r).ok})}] :
             h.method # "POST" \/ h.path # "/"}

Init ==
    /\ index = EmptyIndex
    /\ readers = {}
    /\ calls = [c \in Calls |-> NoCall]
    /\ cluster = EmptyIndex
    /\ areq = {}
    /\ arsp = {}

Next ==
    \/ \E c \in Calls, h \in HandlerHttp : Call(c, h)
    \/ \E c \in Calls : ReadFailed(c)
    \/ \E c \in Calls : Abandon(c)
    \/ \E c \in Calls : Aggregated(c)
    \/ \E c \in Calls : AcquireRead(c)
    \/ \E c \in Calls : IterStep(c)
    \/ \E c \in Calls : Unlock(c)
    \/ \E c \in Calls : Finish(c)
    \/ \E ns \in HandlerNamespaces, name \in Names, spec \in HandlerSpecs :
          IndexApply(ns, name, spec)
    \/ \E ns \in HandlerNamespaces, name \in Names : IndexDelete(ns, name)
    \/ \E ns \in HandlerNamespaces : IndexNamespace(ns)

Spec == Init /\ [][Next]_vars

(***************************************************************************)
(* Specification SpecAdmit: admit as a function of its request and of the  *)
(* index it reads.                                                         *)
(***************************************************************************)
InitAdmit ==
    /\ index \in Indexes
    /\ readers = {}
    /\ calls = [c \in Calls |-> NoCall]
    /\ cluster = EmptyIndex
    /\ areq \in {{r} : r \in AdmissionRequests}
    /\ arsp = {}

Admit ==
    /\ arsp = {}
    /\ arsp' = {admit(The(areq), index)}
    /\ UNCHANGED <<index, readers, calls, cluster, areq>>

NextAdmit == Admit

SpecAdmit == InitAdmit /\ [][NextAdmit]_vars

(***************************************************************************)
(* Specification SpecGate: the orchestrator persists a Server only once    *)
(* the service allowed it, and the watch reflects persisted Servers in the *)
(* index later.                                                            *)
(***************************************************************************)
GateHttp ==
    {h \in HandlerHttp :
        /\ h.method = "POST" /\ h.path = "/"
        /\ h.body.request # {}
        /\ Route(The(h.body.request).kind) = "server"
        /\ parse_spec("server", The(h.body.request)).ok}

\* The orchestrator got "allowed" for the write and persists the Server.
Persist(c) ==
    /\ calls[c].pc = "done"
    /\ \E rsp \in The(The(calls[c].result).body).response :
          rsp.allowed
    /\ LET p == The(calls[c].parsed) IN
       cluster' = WithServer(cluster, p.ns, p.name, p.spec)
    /\ calls' = [calls EXCEPT ![c] = NoCall]
    /\ UNCHANGED <<index, readers, areq, arsp>>

\* The orchestrator got a denial and drops the write.
Refuse(c) ==
    /\ calls[c].pc = "done"
    /\ \E rsp \in The(The(calls[c].result).body).response :
          ~rsp.allowed
    /\ calls' = [calls EXCEPT ![c] = NoCall]
    /\ UNCHANGED <<index, readers, cluster, areq, arsp>>

\* The watch brings the index up to date with one persisted Server.
Reflect(ns, name) ==
    /\ ns \in DOMAIN cluster
    /\ name \in DOMAIN cluster[ns].servers
    /\ IndexApply(ns, name, cluster[ns].servers[name])

NextGate ==
    \/ \E c \in Calls, h \in GateHttp : Call(c, h)
    \/ \E c \in Calls : Aggregated(c)
    \/ \E c \in Calls : AcquireRead(c)
    \/ \E c \in Calls : IterStep(c)
    \/ \E c \in Calls : Unlock(c)
    \/ \E c \in Calls : Persist(c)
    \/ \E c \in Calls : Refuse(c)
    \/ \E ns \in HandlerNamespaces, name \in Names : Reflect(ns, name)

SpecGate == Init /\ [][NextGate]_vars

(***************************************************************************)
(* Properties                                                              *)
(***************************************************************************)
\* No namespace of idx holds two Servers with different names and the same
\* port and podSelector.
Uniqueness(idx) ==
    \A ns \in DOMAIN idx :
       \A n1, n2 \in DOMAIN idx[ns].servers :
          n1 # n2 =>
             ~ /\ idx[ns].servers[n1].port = idx[ns].servers[n2].port
               /\ idx[ns].servers[n1].podSelector = idx[ns].servers[n2].podSelector

\* C1: under SpecGate, where a Server is persisted only after the service
\* allowed it and indexed later, neither the persisted Servers nor the index
\* ever hold, in one namespace, two Servers with different names and equal
\* port and podSelector.
C1_UniquenessUnderRaces == Uniqueness(cluster) /\ Uniqueness(index)

(***************************************************************************)
(* Properties of admit (specification SpecAdmit)                           *)
(***************************************************************************)
\* A well-formed Server request: the policy group, the Server kind, an
\* object with a namespace and a spec that is a ServerSpec.
WellFormedServer(req) ==
    /\ req.kind.group = PolicyGroup
    /\ req.kind.kind = ServerKind
    /\ \E obj \in req.object :
          /\ obj.namespace # {}
          /\ \E v \in obj.data : v.shape = "server"

WellFormedAuthz(req) ==
    /\ req.kind.group = PolicyGroup
    /\ req.kind.kind = AuthorizationPolicyKind
    /\ \E obj \in req.object :
          /\ obj.namespace # {}
          /\ \E v \in obj.data : v.shape = "authz"

ReqNs(req) == The(The(req.object).namespace)
ReqName(req) == The(req.object).name
ReqServer(req) == The(The(req.object).data).server
ReqTargetRef(req) == The(The(req.object).data).authz.targetRef

\* The entries of namespace ns of idx that have another name than name and
\* the port and podSelector of spec.
ConflictingEntries(idx, ns, name, spec) ==
    IF ns \in DOMAIN idx
    THEN {n \in DOMAIN idx[ns].servers :
             /\ n # name
             /\ idx[ns].servers[n].port = spec.port
             /\ idx[ns].servers[n].podSelector = spec.podSelector}
    ELSE {}

\* C2: a well-formed Server request is denied with "identical server spec
\* already exists" exactly when its namespace in the index has an entry of
\* another name with the same port and podSelector; otherwise it is allowed.
C2_ServerConflictRule ==
    \A rsp \in arsp :
       LET req == The(areq) IN
       WellFormedServer(req) =>
          IF ConflictingEntries(index, ReqNs(req), ReqName(req), ReqServer(req)) # {}
          THEN ~rsp.allowed /\ rsp.message = "identical server spec already exists"
          ELSE rsp.allowed

\* admit denied a Server named b because of an entry named a.
C2_Witness ==
    \E rsp \in arsp :
       LET req == The(areq) IN
       /\ WellFormedServer(req)
       /\ ReqName(req) = "b"
       /\ ConflictingEntries(index, ReqNs(req), "b", ReqServer(req)) = {"a"}
       /\ ~rsp.allowed

\* C3: a Server request named n is not denied because of the entry named n
\* of its namespace: the decision is the one taken without that entry, and
\* the request is allowed when no entry of another name has its port and
\* podSelector.
C3_SelfExclusion ==
    \A rsp \in arsp :
       LET req == The(areq) IN
       WellFormedServer(req) =>
          LET ns == ReqNs(req)
              name == ReqName(req)
              spec == ReqServer(req)
              own == ns \in DOMAIN index /\ name \in DOMAIN index[ns].servers
          IN /\ own => rsp = admit(req, WithoutServer(index, ns, name))
             /\ (\A n \in DOMAIN (IF ns \in DOMAIN index
                                  THEN index[ns].servers ELSE <<>>) :
                    (/\ index[ns].servers[n].port = spec.port
                     /\ index[ns].servers[n].podSelector = spec.podSelector)
                    => n = name)
                => rsp.allowed

\* admit allowed a Server whose own entry in the index has the same port
\* and podSelector.
C3_Witness ==
    \E rsp \in arsp :
       LET req == The(areq) IN
       /\ WellFormedServer(req)
       /\ ReqNs(req) \in DOMAIN index
       /\ ReqName(req) \in DOMAIN index[ReqNs(req)].servers
       /\ index[ReqNs(req)].servers[ReqName(req)] = ReqServer(req)
       /\ rsp.allowed

\* idx without the namespaces other than ns.
OnlyNamespace(idx, ns) == [m \in (DOMAIN idx) \cap {ns} |-> idx[m]]

\* C4: the entries of other namespaces do not change the decision on a
\* Server request, and a request whose namespace is not in the index is
\* allowed.
C4_NamespaceIsolation ==
    \A rsp \in arsp :
       LET req == The(areq) IN
       WellFormedServer(req) =>
          /\ rsp = admit(req, OnlyNamespace(index, ReqNs(req)))
          /\ ReqNs(req) \notin DOMAIN index => rsp.allowed

\* admit allowed a Server whose namespace is not in the index while another
\* namespace has an entry of another name with the same port and podSelector.
C4_Witness ==
    \E rsp \in arsp :
       LET req == The(areq) IN
       /\ WellFormedServer(req)
       /\ ReqNs(req) \notin DOMAIN index
       /\ \E m \in DOMAIN index :
             ConflictingEntries(index, m, ReqName(req), ReqServer(req)) # {}
       /\ rsp.allowed

\* C5: a request whose (group, kind) is neither the policy group's
\* AuthorizationPolicy nor the policy group's Server is denied with
\* "unsupported resource type: {group}.{version}.{kind}".
C5_UnknownTypeDenied ==
    \A rsp \in arsp :
       LET gvk == The(areq).kind IN
       ~(gvk.group = PolicyGroup
         /\ gvk.kind \in {AuthorizationPolicyKind, ServerKind}) =>
          /\ ~rsp.allowed
          /\ rsp.message =
                "unsupported resource type: " \o gvk.group \o "."
                    \o gvk.version \o "." \o gvk.kind

\* admit denied a Server of another group whose object is a Server that
\* the index would allow.
C5_Witness ==
    \E rsp \in arsp :
       LET req == The(areq) IN
       /\ req.kind.group = "other.io"
       /\ req.kind.kind = ServerKind
       /\ \E obj \in req.object :
             obj.namespace # {} /\ \E v \in obj.data : v.shape = "server"
       /\ index = EmptyIndex
       /\ ~rsp.allowed

\* C6: a well-formed AuthorizationPolicy request is allowed exactly when
\* targetRef.group is the policy group and targetRef.kind is Server, is
\* otherwise denied with the targetRef message, and gets against every index
\* the response it gets against the empty one.
C6_AuthzTargetRef ==
    \A rsp \in arsp :
       LET req == The(areq) IN
       WellFormedAuthz(req) =>
          LET ref == ReqTargetRef(req) IN
          /\ IF ref.group = {PolicyGroup} /\ ref.kind = ServerKind
             THEN rsp.allowed
             ELSE /\ ~rsp.allowed
                  /\ rsp.message = "targetRef must be a policy.linkerd.io Server"
          /\ rsp = admit(req, EmptyIndex)

\* admit denied an AuthorizationPolicy whose targetRef has the Server kind
\* and no group.
C6_Witness ==
    \E rsp \in arsp :
       LET req == The(areq) IN
       /\ WellFormedAuthz(req)
       /\ ReqTargetRef(req).group = {}
       /\ ReqTargetRef(req).kind = ServerKind
       /\ index # EmptyIndex
       /\ ~rsp.allowed

\* C7: the response to a decoded request carries the request's uid, on
\* every path through admit.
C7_UidEchoed ==
    \A rsp \in arsp : rsp.uid = The(areq).uid

(***************************************************************************)
(* Properties of call (specification Spec)                                 *)
(***************************************************************************)
WrongRoute(h) == h.method # "POST" \/ h.path # "/"

\* C8: a call with another method than POST or another path than "/" is
\* answered with status NOT_FOUND and an empty body; its body is not
\* awaited, nothing is decoded, admit and the validators do not run and the
\* index lock is not taken.
C8_WrongRoute ==
    \A c \in Calls :
       \A h \in calls[c].http :
          WrongRoute(h) =>
             /\ calls[c].pc = "done"
             /\ \A r \in calls[c].result :
                   r.ok /\ r.status = StatusNotFound /\ r.body = {}
             /\ calls[c].result # {}
             /\ calls[c].did = {}
             /\ c \notin readers

\* A POST to another path than "/", carrying a Server that would be
\* allowed, got its answer.
C8_Witness ==
    \E c \in Calls :
       \E h \in calls[c].http :
          /\ h.method = "POST" /\ h.path # "/"
          /\ h.body.request # {}
          /\ calls[c].pc = "done"

\* The body of h is one that cannot be decoded into a request with a spec:
\* no review, no request, or for a supported kind no object, no namespace,
\* no spec or a spec of the wrong shape.
Undecodable(h) ==
    \/ ~h.body.json
    \/ h.body.request = {}
    \/ \E req \in h.body.request :
          /\ req.kind.group = PolicyGroup
          /\ req.kind.kind \in {AuthorizationPolicyKind, ServerKind}
          /\ \/ req.object = {}
             \/ \E obj \in req.object :
                   \/ obj.namespace = {}
                   \/ obj.data = {}
                   \/ \E v \in obj.data :
                         v.shape # (IF req.kind.kind = ServerKind
                                    THEN "server" ELSE "authz")

HandlerIndexes ==
    {idx \in Indexes :
        /\ DOMAIN idx \subseteq HandlerNamespaces
        /\ \A ns \in DOMAIN idx : \A n \in DOMAIN idx[ns].servers :
              idx[ns].servers[n] \in HandlerSpecs}

InitStatic ==
    /\ index \in HandlerIndexes
    /\ readers = {}
    /\ calls = [c \in Calls |-> NoCall]
    /\ cluster = EmptyIndex
    /\ areq = {}
    /\ arsp = {}

NextStatic ==
    \/ \E c \in Calls, h \in HandlerHttp : Call(c, h)
    \/ \E c \in Calls : ReadFailed(c)
    \/ \E c \in Calls : Abandon(c)
    \/ \E c \in Calls : Aggregated(c)
    \/ \E c \in Calls : AcquireRead(c)
    \/ \E c \in Calls : IterStep(c)
    \/ \E c \in Calls : Unlock(c)
    \/ \E c \in Calls : Finish(c)

SpecStatic == InitStatic /\ [][NextStatic]_vars

\* C11: two calls that carry the same request and were both validated
\* against the unchanged index resolve to the same decision, whatever the
\* order of their steps and whatever calls the other one made before.
C11_SameDecision ==
    \A c, d \in Calls :
       (/\ calls[c].pc = "done" /\ calls[d].pc = "done"
        /\ calls[c].http = calls[d].http
        /\ "aggregate" \in calls[c].did
        /\ "aggregate" \in calls[d].did)
       => calls[c].result = calls[d].result

\* Two calls with the same Server request were both denied for a conflict.
C11_Witness ==
    \E c, d \in Calls :
       /\ c # d
       /\ calls[c].pc = "done" /\ calls[d].pc = "done"
       /\ calls[c].http = calls[d].http
       /\ "index" \in calls[c].did /\ "index" \in calls[d].did
       /\ \E r \in calls[c].result : \E review \in r.body :
             \E rsp \in review.response : ~rsp.allowed

\* C12: no step of a call (answering, failing, being abandoned, decoding,
\* locking, iterating, unlocking, being taken by the caller) changes the
\* index; the index changes only in steps of its writer.
C12_GateOnlyJudges ==
    [][(calls' # calls \/ readers' # readers) => index' = index]_vars

\* A call resolved to an allowed Server that the index does not hold.
C12_Witness ==
    \E c \in Calls :
       /\ calls[c].pc = "done"
       /\ "index" \in calls[c].did
       /\ \E r \in calls[c].result : \E review \in r.body :
             \E rsp \in review.response : rsp.allowed
       /\ LET p == The(calls[c].parsed) IN
          \/ p.ns \notin DOMAIN index
          \/ p.name \notin DOMAIN index[p.ns].servers

\* The decision carried by the result of a resolved call.
Decision(call) == The(The(The(call.result).body).response)

\* C13: while a call holds the read lock the index does not change, and the
\* decision a Server call leaves the lock with is the conflict rule on the
\* index of that instant: allowed exactly when no entry of another name in
\* its namespace has its port and podSelector.
C13_SingleInstant ==
    /\ [][readers # {} => index' = index]_vars
    /\ [][\A c \in Calls :
            (calls[c].pc = "unlock" /\ calls'[c].pc = "done") =>
               LET p == The(calls[c].parsed) IN
               /\ c \in readers
               /\ Decision(calls'[c]).allowed
                  <=> (ConflictingEntries(index, p.ns, p.name, p.spec) = {})]_vars

\* A call was denied for a conflict with an entry that the writer removed
\* after the call released the lock.
C13_Witness ==
    \E c \in Calls :
       /\ calls[c].pc = "done"
       /\ "index" \in calls[c].did
       /\ ~Decision(calls[c]).allowed
       /\ LET p == The(calls[c].parsed) IN
          ConflictingEntries(index, p.ns, p.name, p.spec) = {}

\* C14: a call holds the read lock only between the read of its whole body
\* and its response, and only on the Server path; a call that waits for its
\* body, has resolved or has not started does not hold it, so when every
\* call is in one of these states the writer is not excluded.
C14_NoLockAcrossSuspension ==
    /\ \A c \in readers :
          /\ calls[c].pc \in {"iter", "unlock"}
          /\ "aggregate" \in calls[c].did
          /\ Route(The(The(calls[c].http).body.request).kind) = "server"
    /\ \A c \in Calls :
          calls[c].pc \in {"idle", "aggregate", "read", "done"} => c \notin readers
    /\ (\A c \in Calls : calls[c].pc \in {"idle", "aggregate", "done"})
          => readers = {}

\* One call holds the read lock while another waits for its body.
C14_Witness ==
    \E c, d \in Calls :
       /\ c \in readers
       /\ calls[d].pc = "aggregate"

(***************************************************************************)
(* Specification SpecLive: Spec with the fairness of the executor.  Once   *)
(* the body has been read, the rest of the future is synchronous code that *)
(* runs to its end; body arrival, new calls and the writer are not forced. *)
(***************************************************************************)
SpecLive ==
    /\ Spec
    /\ \A c \in Calls :
          /\ WF_vars(AcquireRead(c))
          /\ WF_vars(IterStep(c))
          /\ WF_vars(Unlock(c))

\* C15: a call can always be made on a free slot, whatever the other calls
\* are doing (poll_ready is always ready), and a call whose body has been
\* read eventually resolves, even if other calls wait for their bodies
\* forever.
C15_CallsReturn ==
    /\ [](\A c \in Calls :
            calls[c].pc = "idle" => ENABLED (\E h \in HandlerHttp : Call(c, h)))
    /\ \A c \in Calls :
          ("aggregate" \in calls[c].did) ~> (calls[c].pc = "done")

\* A Server call resolved while the other call was waiting for its body.
C15_Witness ==
    \E c, d \in Calls :
       /\ calls[c].pc = "done"
       /\ "index" \in calls[c].did
       /\ calls[d].pc = "aggregate"

\* C16: a request and the same request with another version take the same
\* route through admit and get the same allowed flag.
C16_VersionNotMatched ==
    \A rsp \in arsp :
       LET req == The(areq) IN
       \A v \in Versions :
          LET other == [req EXCEPT !.kind.version = v] IN
          /\ Route(other.kind) = Route(req.kind)
          /\ admit(other, index).allowed = rsp.allowed

\* admit allowed a Server request whose version is not the served one.
C16_Witness ==
    \E rsp \in arsp :
       LET req == The(areq) IN
       /\ WellFormedServer(req)
       /\ req.kind.version = "v1alpha1"
       /\ index # EmptyIndex
       /\ rsp.allowed

\* C17: a request of a supported kind without object, without namespace,
\* without spec or with a spec of the wrong shape is denied with the reason
\* of that failure (the namespace is looked for before the spec), without a
\* validate_* function running and without the index being read.
C17_SpecExtractionFailures ==
    \A c \in Calls :
       \A h \in calls[c].http : \A req \in h.body.request :
          (/\ calls[c].pc = "done"
           /\ "aggregate" \in calls[c].did
           /\ req.kind.group = PolicyGroup
           /\ req.kind.kind \in {AuthorizationPolicyKind, ServerKind}) =>
             LET rsp == Decision(calls[c])
                 wanted == IF req.kind.kind = ServerKind THEN "server" ELSE "authz"
                 failure ==
                    IF req.object = {} THEN "object"
                    ELSE IF The(req.object).namespace = {} THEN "namespace"
                    ELSE IF The(req.object).data = {} THEN "spec"
                    ELSE IF The(The(req.object).data).shape # wanted THEN "shape"
                    ELSE "none"
             IN failure # "none" =>
                  /\ ~rsp.allowed
                  /\ failure = "object" => rsp.message = "missing server"
                  /\ failure = "namespace" =>
                        rsp.message = "no 'namespace' field set on server"
                  /\ failure = "spec" =>
                        rsp.message = "no 'spec' field set on server"
                  /\ failure = "shape" =>
                        rsp.message \notin {"", "missing server",
                                            "no 'namespace' field set on server",
                                            "no 'spec' field set on server"}
                  /\ calls[c].did \cap {"validate", "index"} = {}
                  /\ c \notin readers

\* A Server request whose object has neither namespace nor spec was denied.
C17_Witness ==
    \E c \in Calls :
       \E h \in calls[c].http : \E req \in h.body.request :
          /\ calls[c].pc = "done"
          /\ "aggregate" \in calls[c].did
          /\ req.kind.kind = ServerKind
          /\ \E obj \in req.object : obj.namespace = {} /\ obj.data = {}
          /\ ~Decision(calls[c]).allowed

(***************************************************************************)
(* Specification SpecSerial: as SpecGate, but a Server admission starts    *)
(* only when no other call is in flight and every persisted Server is in   *)
(* the index.  It starts from any index without two conflicting Servers.   *)
(***************************************************************************)
\* Well-formed Server requests for every namespace, name and spec.
SerialHttp ==
    {[method |-> "POST", path |-> "/",
      body |-> ReviewOf({[uid |-> "u1",
                          kind |-> Gvk(PolicyGroup, ServerKind),
                          object |-> {Object({ns}, n,
                              {[shape |-> "server", server |-> s]})}]})] :
        <<ns, n, s>> \in Namespaces \X Names \X ServerSpecs}

InitSerial ==
    /\ index \in {idx \in Indexes : Uniqueness(idx)}
    /\ readers = {}
    /\ calls = [c \in Calls |-> NoCall]
    /\ cluster = index
    /\ areq = {}
    /\ arsp = {}

SerialCall(c, h) ==
    /\ \A d \in Calls : calls[d].pc = "idle"
    /\ cluster = index
    /\ Call(c, h)

NextSerial ==
    \/ \E c \in Calls, h \in SerialHttp : SerialCall(c, h)
    \/ \E c \in Calls : Aggregated(c)
    \/ \E c \in Calls : AcquireRead(c)
    \/ \E c \in Calls : IterStep(c)
    \/ \E c \in Calls : Unlock(c)
    \/ \E c \in Calls : Persist(c)
    \/ \E c \in Calls : Refuse(c)
    \/ \E ns \in Namespaces, name \in Names : Reflect(ns, name)

SpecSerial == InitSerial /\ [][NextSerial]_vars

\* C18: under SpecSerial, every index and every set of persisted Servers
\* reached is without two Servers of different names and equal port and
\* podSelector in one namespace.
C18_SerialUniqueness ==
    \A idx \in {index, cluster} : Uniqueness(idx)

\* An update that changes the spec of an indexed Server was allowed while
\* the namespace holds a Server of another name.
C18_Witness ==
    \E c \in Calls :
       /\ calls[c].pc = "done"
       /\ Decision(calls[c]).allowed
       /\ LET p == The(calls[c].parsed) IN
          /\ p.ns \in DOMAIN index
          /\ p.name \in DOMAIN index[p.ns].servers
          /\ index[p.ns].servers[p.name] # p.spec
          /\ DOMAIN index[p.ns].servers # {p.name}

\* C19: in every response that carries a decision, allowed is true only
\* for a decodable request of a supported kind on which a validate_*
\* function ran (and, for an AuthorizationPolicy, whose targetRef is a
\* policy-group Server), and a denial carries a non-empty reason.
C19_DecisionShape ==
    \A c \in Calls :
       (calls[c].pc = "done" /\ "aggregate" \in calls[c].did) =>
          LET rsp == Decision(calls[c])
              h == The(calls[c].http)
          IN /\ ~rsp.allowed => rsp.message # ""
             /\ rsp.allowed =>
                  /\ ~Undecodable(h)
                  /\ "validate" \in calls[c].did
                  /\ LET req == The(h.body.request) IN
                     /\ req.kind.group = PolicyGroup
                     /\ req.kind.kind \in {AuthorizationPolicyKind, ServerKind}
                     /\ req.kind.kind = AuthorizationPolicyKind =>
                           /\ ReqTargetRef(req).group = {PolicyGroup}
                           /\ ReqTargetRef(req).kind = ServerKind

\* An AuthorizationPolicy was allowed.
C19_Witness ==
    \E c \in Calls :
       /\ calls[c].pc = "done"
       /\ "validate" \in calls[c].did
       /\ The(The(calls[c].http).body.request).kind.kind = AuthorizationPolicyKind
       /\ Decision(calls[c]).allowed

\* idx without namespace ns.
WithoutNamespace(idx, ns) == [m \in (DOMAIN idx) \ {ns} |-> idx[m]]

\* C20: a Server request allowed against an index is allowed against the
\* index without any one of its entries or namespaces (hence, over all
\* indexes, without any set of them); and a Server (n, srv) alone in the
\* namespace makes the request fail exactly when the request's Server alone
\* would make a request for (n, srv) fail.
C20_Monotonicity ==
    \A rsp \in arsp :
       LET req == The(areq) IN
       WellFormedServer(req) =>
          /\ rsp.allowed =>
                \A m \in DOMAIN index :
                   /\ admit(req, WithoutNamespace(index, m)).allowed
                   /\ \A n \in DOMAIN index[m].servers :
                         admit(req, WithoutServer(index, m, n)).allowed
          /\ \A n \in Names, srv \in ServerSpecs :
                LET obj == The(req.object)
                    swapped == [req EXCEPT !.object =
                                   {[obj EXCEPT !.name = n,
                                                !.data = {[shape |-> "server",
                                                           server |-> srv]}]}]
                IN admit(req, WithServer(EmptyIndex, ReqNs(req), n, srv)).allowed
                   = admit(swapped, WithServer(EmptyIndex, ReqNs(req),
                                               ReqName(req), ReqServer(req))).allowed

\* admit allowed a Server whose namespace holds its own entry and a Server
\* of another name.
C20_Witness ==
    \E rsp \in arsp :
       LET req == The(areq) IN
       /\ WellFormedServer(req)
       /\ ReqNs(req) \in DOMAIN index
       /\ DOMAIN index[ReqNs(req)].servers = Names
       /\ rsp.allowed

====
